---- MODULE Spec2Model ----
(***************************************************************************)
(* makedot: the Makefile grammar (src/parser.rs), the per-file assembler,  *)
(* the variable resolver, the recipe scanner and the cross-file walker     *)
(* (src/makefile.rs).                                                      *)
(*                                                                         *)
(* Text is a sequence of one-character strings, so that the grammar and    *)
(* the regular expressions of the program are computed character by        *)
(* character, as nom and the regex crate compute them.                     *)
(***************************************************************************)
EXTENDS Naturals, Integers, Sequences, FiniteSets, TLC

(***************************************************************************)
(* Characters.                                                             *)
(***************************************************************************)
Lower == {"a","b","c","d","e","f","g","h","i","j","k","l","m",
          "n","o","p","q","r","s","t","u","v","w","x","y","z"}
Upper == {"A","B","C","D","E","F","G","H","I","J","K","L","M",
          "N","O","P","Q","R","S","T","U","V","W","X","Y","Z"}
Digit == {"0","1","2","3","4","5","6","7","8","9"}
\* nom's alphanumeric1 (ASCII letters and digits)
Alphanumeric == Lower \cup Upper \cup Digit
\* the characters of `idnt`: is_a("._-") or alphanumeric1
IdChar == Alphanumeric \cup {".", "_", "-"}
\* regex \w and \s (their ASCII members)
WordChar == Alphanumeric \cup {"_"}
SpaceChar == {" ", "\t", "\n", "\r"}

\* the character at position i of s, "" past the end of the input
At(s, i) == IF i >= 1 /\ i <= Len(s) THEN s[i] ELSE ""

\* s[i..j-1]
Slice(s, i, j) == SubSeq(s, i, j - 1)

\* tag(t): t occurs in s at position i
HasTag(s, i, t) ==
  /\ i + Len(t) - 1 <= Len(s)
  /\ \A k \in 1..Len(t) : s[i + k - 1] = t[k]

(***************************************************************************)
(* Let(e, Body) is Body(e) with e evaluated once, before Body.             *)
(***************************************************************************)
Let(e, Body(_)) == CHOOSE v \in {Body(x) : x \in {e}} : TRUE

(***************************************************************************)
(* src/parser.rs: a parser takes the input s and a position i and returns  *)
(* [ok, pos, val]: whether it matched, the position after the match, and   *)
(* its output.                                                             *)
(***************************************************************************)
Fail == [ok |-> FALSE, pos |-> 0, val |-> <<>>]
Ok(p, v) == [ok |-> TRUE, pos |-> p, val |-> v]

\* a sequence of parsers (tuple, pair, and): After(r) runs when r matched
Then(e, After(_)) == Let(e, LAMBDA r : IF r.ok THEN After(r) ELSE Fail)

\* alt: the first parser that matches
OrElse(e, other) == Let(e, LAMBDA r : IF r.ok THEN r ELSE other)

\* Parser::map
Map(e, F(_)) == Let(e, LAMBDA r : IF r.ok THEN Ok(r.pos, F(r.val)) ELSE Fail)

\* nl (not(windows)): tag("\n")
nl(s, i) == IF At(s, i) = "\n" THEN Ok(i + 1, <<>>) ELSE Fail

\* eol: the end of the input, or nl
eol(s, i) == IF i > Len(s) THEN Ok(i, <<>>) ELSE nl(s, i)

\* enl: a backslash and nl
enl(s, i) == IF At(s, i) = "\\" /\ At(s, i + 1) = "\n" THEN Ok(i + 2, <<>>) ELSE Fail

\* many0_count(alt((enl, one_of(" \t")))): the position after the run
RECURSIVE HSpaceEnd(_, _)
HSpaceEnd(s, i) ==
  IF enl(s, i).ok THEN HSpaceEnd(s, i + 2)
  ELSE IF At(s, i) \in {" ", "\t"} THEN HSpaceEnd(s, i + 1)
  ELSE i

\* hspace0(tab): both arms of the match are the same parser
hspace0(s, i) == Ok(HSpaceEnd(s, i), <<>>)

\* hspace1(tab): at least one enl or blank
hspace1(s, i) == Let(HSpaceEnd(s, i), LAMBDA j : IF j > i THEN Ok(j, <<>>) ELSE Fail)

\* ws0(inner) = terminated(inner, hspace0(true))
ws0(inner(_, _), s, i) ==
  Then(inner(s, i), LAMBDA r : Ok(hspace0(s, r.pos).pos, r.val))

\* ws1(inner) = terminated(inner, hspace1(true))
ws1(inner(_, _), s, i) ==
  Then(inner(s, i), LAMBDA r : Then(hspace1(s, r.pos), LAMBDA h : Ok(h.pos, r.val)))

\* many0_count(alt((enl, none_of("\n\r")))): the position after the run
RECURSIVE CommentEnd(_, _)
CommentEnd(s, i) ==
  IF enl(s, i).ok THEN CommentEnd(s, i + 2)
  ELSE IF i <= Len(s) /\ s[i] \notin {"\n", "\r"} THEN CommentEnd(s, i + 1)
  ELSE i

\* comment: pair(ws0(char('#')), many0_count(...)), output thrown away
comment(s, i) ==
  IF At(s, i) = "#"
  THEN Let(HSpaceEnd(s, i + 1), LAMBDA j : Ok(CommentEnd(s, j), <<>>))
  ELSE Fail

\* opt(comment): it matches always, after the comment or at i
OptComment(s, i) == OrElse(comment(s, i), Ok(i, <<>>))

\* opt(comment).and(eol)
CommentEol(s, i) == Then(OptComment(s, i), LAMBDA c : eol(s, c.pos))

\* is_not(")"): the position of the first ")" from i, or the end of the input
RECURSIVE IsNotParenEnd(_, _)
IsNotParenEnd(s, i) ==
  IF i <= Len(s) /\ s[i] # ")" THEN IsNotParenEnd(s, i + 1) ELSE i

\* many1_count(alt((is_a("._-"), alphanumeric1))): the position after the run
RECURSIVE IdntEnd(_, _)
IdntEnd(s, i) == IF At(s, i) \in IdChar THEN IdntEnd(s, i + 1) ELSE i

\* var = recognize(tuple((tag("$("), is_not(")"), char(')'))))
IdentifierVar(s, i) ==
  IF HasTag(s, i, <<"$", "(">>)
  THEN Let(IsNotParenEnd(s, i + 2),
           LAMBDA j : IF j > i + 2 /\ At(s, j) = ")"
                      THEN Ok(j + 1, Slice(s, i, j + 1))
                      ELSE Fail)
  ELSE Fail

\* idnt = recognize(many1_count(alt((is_a("._-"), alphanumeric1))))
IdentifierIdnt(s, i) ==
  Let(IdntEnd(s, i), LAMBDA j : IF j > i THEN Ok(j, Slice(s, i, j)) ELSE Fail)

\* identifier: alt((var, idnt))
identifier(s, i) == OrElse(IdentifierVar(s, i), IdentifierIdnt(s, i))

\* eq: alt((tag("="), tag("?=")))
eq(s, i) ==
  IF HasTag(s, i, <<"=">>) THEN Ok(i + 1, <<"=">>)
  ELSE IF HasTag(s, i, <<"?", "=">>) THEN Ok(i + 2, <<"?", "=">>)
  ELSE Fail

\* many0_count(alt((enl, none_of("\n\r#")))): the position after the run
RECURSIVE RestEnd(_, _)
RestEnd(s, i) ==
  IF enl(s, i).ok THEN RestEnd(s, i + 2)
  ELSE IF i <= Len(s) /\ s[i] \notin {"\n", "\r", "#"} THEN RestEnd(s, i + 1)
  ELSE i

\* rest: recognize(many0_count(...)), the text up to a comment or line end
rest(s, i) == Let(RestEnd(s, i), LAMBDA j : Ok(j, Slice(s, i, j)))

\* var: tuple((ws0(identifier), ws0(eq), ws0(rest), opt(comment), eol))
var(s, i) ==
  Then(ws0(identifier, s, i), LAMBDA idt :
  Then(ws0(eq, s, idt.pos), LAMBDA op :
  Then(ws0(rest, s, op.pos), LAMBDA val :
  Then(CommentEol(s, val.pos), LAMBDA e :
  Ok(e.pos, <<idt.val, op.val, val.val>>)))))

\* include: tuple((tag("include"), rest, opt(comment), eol))
include(s, i) ==
  IF HasTag(s, i, <<"i", "n", "c", "l", "u", "d", "e">>)
  THEN Then(rest(s, i + 7), LAMBDA file :
       Then(CommentEol(s, file.pos), LAMBDA e :
       Ok(e.pos, file.val)))
  ELSE Fail

\* take_until(t): the first position from i where t occurs, 0 when none does
RECURSIVE TakeUntil(_, _, _)
TakeUntil(s, i, t) ==
  IF i + Len(t) - 1 > Len(s) THEN 0
  ELSE IF HasTag(s, i, t) THEN i
  ELSE TakeUntil(s, i + 1, t)

\* tuple((ws0(tag(start)), take_until(end), tag(end)))
Span(s, i, start, end) ==
  IF HasTag(s, i, start)
  THEN Let(HSpaceEnd(s, i + Len(start)), LAMBDA b :
       Let(TakeUntil(s, b, end), LAMBDA u :
       IF u > 0 THEN Ok(u + Len(end), <<start, Slice(s, b, u), end>>) ELSE Fail))
  ELSE Fail

\* define: "define" ... "endef"
define(s, i) ==
  Span(s, i, <<"d", "e", "f", "i", "n", "e">>, <<"e", "n", "d", "e", "f">>)

\* conditional: alt((tag("ifeq"), tag("ifneq"), tag("ifdef"), tag("ifndef")))
\* ... "endif"
conditional(s, i) ==
  Let(<<"e", "n", "d", "i", "f">>, LAMBDA end :
  OrElse(Span(s, i, <<"i", "f", "e", "q">>, end),
  OrElse(Span(s, i, <<"i", "f", "n", "e", "q">>, end),
  OrElse(Span(s, i, <<"i", "f", "d", "e", "f">>, end),
         Span(s, i, <<"i", "f", "n", "d", "e", "f">>, end)))))

\* many_till(ws0(identifier), opt(comment).and(eol)): the dependencies
RECURSIVE TaskDeps(_, _, _)
TaskDeps(s, i, acc) ==
  Let(CommentEol(s, i), LAMBDA e :
  IF e.ok THEN Ok(e.pos, acc)
  ELSE Then(ws0(identifier, s, i), LAMBDA d :
       IF d.pos > i THEN TaskDeps(s, d.pos, Append(acc, d.val)) ELSE Fail))

\* one recipe line: alt((delimited(char('\t'), rest, opt(comment).and(eol))
\* .map(Some), value(None, comment.and(eol)))), None as the empty text
TaskLine(s, i) ==
  OrElse(IF At(s, i) = "\t"
         THEN Then(rest(s, i + 1), LAMBDA r :
              Then(CommentEol(s, r.pos), LAMBDA e : Ok(e.pos, r.val)))
         ELSE Fail,
         Then(comment(s, i), LAMBDA c :
         Then(eol(s, c.pos), LAMBDA e : Ok(e.pos, <<>>))))

\* many0(TaskLine) and the filter_map that keeps the Some(v) with v not empty
RECURSIVE TaskCommands(_, _, _)
TaskCommands(s, i, acc) ==
  Let(TaskLine(s, i), LAMBDA l :
  IF l.ok /\ l.pos > i
  THEN TaskCommands(s, l.pos, IF l.val # <<>> THEN Append(acc, l.val) ELSE acc)
  ELSE Ok(i, acc))

\* task: tuple((ws0(identifier), ws0(char(':')), dependencies, commands))
task(s, i) ==
  Then(ws0(identifier, s, i), LAMBDA name :
  IF At(s, name.pos) = ":"
  THEN Let(HSpaceEnd(s, name.pos + 1), LAMBDA j :
       Then(TaskDeps(s, j, <<>>), LAMBDA deps :
       Then(TaskCommands(s, deps.pos, <<>>), LAMBDA cmds :
       Ok(cmds.pos, <<name.val, deps.val, cmds.val>>))))
  ELSE Fail)

\* ast::Term
TermTask(n, d, c) == [kind |-> "Task", name |-> n, dependencies |-> d, commands |-> c]
TermVariable(n, o, v) == [kind |-> "Variable", name |-> n, op |-> o, value |-> v]
TermEmpty == [kind |-> "Empty"]
TermUnimplemented(w) == [kind |-> "Unimplemented", what |-> w]

\* term: alt((empty, define, include, conditional, var, comment, task))
term(s, i) ==
  OrElse(Map(Then(hspace0(s, i), LAMBDA h : eol(s, h.pos)), LAMBDA v : TermEmpty),
  OrElse(Map(define(s, i), LAMBDA v : TermUnimplemented("define")),
  OrElse(Map(include(s, i), LAMBDA v : TermUnimplemented("include")),
  OrElse(Map(conditional(s, i), LAMBDA v : TermUnimplemented("conditional")),
  OrElse(Map(var(s, i), LAMBDA v : TermVariable(v[1], v[2], v[3])),
  OrElse(Map(Then(comment(s, i), LAMBDA c : eol(s, c.pos)), LAMBDA v : TermEmpty),
         Map(task(s, i), LAMBDA v : TermTask(v[1], v[2], v[3]))))))))

\* many_till(ws0(term), eof): the terms, or an error (a term that fails, or
\* one that consumes nothing)
RECURSIVE ManyTerms(_, _, _)
ManyTerms(s, i, acc) ==
  IF i > Len(s) THEN [ok |-> TRUE, terms |-> acc]
  ELSE Let(ws0(term, s, i), LAMBDA t :
       IF t.ok /\ t.pos > i THEN ManyTerms(s, t.pos, Append(acc, t.val))
       ELSE [ok |-> FALSE, terms |-> <<>>])

\* parser::Makefile::parse
parse(input) == Let(input, LAMBDA s : ManyTerms(s, 1, <<>>))

(***************************************************************************)
(* src/makefile.rs: the variable resolver and the recipe scanner.          *)
(***************************************************************************)
\* the first position from i that holds "}", 0 when none does
RECURSIVE CloseBrace(_, _)
CloseBrace(s, i) ==
  IF i > Len(s) THEN 0
  ELSE IF s[i] = "}" THEN i
  ELSE CloseBrace(s, i + 1)

\* re_var = \$\{([^}]+)\} matched at position p: the position of the closing
\* brace, 0 when the expression does not match there
VarMatch(s, p) ==
  IF HasTag(s, p, <<"$", "{">>) /\ p + 2 <= Len(s) /\ s[p + 2] # "}"
  THEN CloseBrace(s, p + 3)
  ELSE 0

\* the closure of replace_all: variables.get(&key).unwrap_or(&str.0)
Replacement(variables, key, str) ==
  IF key \in DOMAIN variables THEN variables[key] ELSE str

\* Regex::replace_all: the matches left to right, none overlapping
RECURSIVE ReplaceAll(_, _, _, _)
ReplaceAll(variables, str, p, acc) ==
  IF p > Len(str) THEN acc
  ELSE Let(VarMatch(str, p), LAMBDA q :
       IF q > 0
       THEN ReplaceAll(variables, str, q + 1,
                       acc \o Replacement(variables, Slice(str, p + 2, q), str))
       ELSE ReplaceAll(variables, str, p + 1, Append(acc, str[p])))

\* Makefile::resolve_vars
resolve_vars(self, str) ==
  Let(<<self.variables, str>>, LAMBDA a : ReplaceAll(a[1], a[2], 1, <<>>))

\* ((\\\n)|([^\n#|&>]))+ from i: the position after the run
RECURSIVE ArgsEnd(_, _)
ArgsEnd(s, i) ==
  IF enl(s, i).ok THEN ArgsEnd(s, i + 2)
  ELSE IF i <= Len(s) /\ s[i] \notin {"\n", "#", "|", "&", ">"} THEN ArgsEnd(s, i + 1)
  ELSE i

\* re_cmd = make (((\\\n)|([^\n#|&>]))+)\n? : the leftmost match from p, as
\* the bounds of its group 1, <<0, 0>> when there is none
RECURSIVE CmdMatch(_, _)
CmdMatch(s, p) ==
  IF p > Len(s) THEN <<0, 0>>
  ELSE IF HasTag(s, p, <<"m", "a", "k", "e", " ">>) /\ ArgsEnd(s, p + 5) > p + 5
  THEN <<p + 5, ArgsEnd(s, p + 5)>>
  ELSE CmdMatch(s, p + 1)

\* [^=:\s/]+ from i: the position after the run
RECURSIVE PositionalEnd(_, _)
PositionalEnd(a, i) ==
  IF i <= Len(a) /\ a[i] \notin ({"=", ":", "/"} \cup SpaceChar)
  THEN PositionalEnd(a, i + 1)
  ELSE i

\* re_positionals = \s(\w[^=:\s/]+)(\s|$) matched at position i: the position
\* after group 1, 0 when the expression does not match there
PositionalAt(a, i) ==
  IF At(a, i) \in SpaceChar /\ At(a, i + 1) \in WordChar
  THEN Let(PositionalEnd(a, i + 2), LAMBDA e :
       IF e > i + 2 /\ (e > Len(a) \/ a[e] \in SpaceChar) THEN e ELSE 0)
  ELSE 0

\* captures_iter(args).map(|c| c[1]): the matches left to right; a match takes
\* the white space that ends it, and the search goes on after it
RECURSIVE Positionals(_, _, _)
Positionals(a, i, acc) ==
  IF i > Len(a) THEN acc
  ELSE Let(PositionalAt(a, i), LAMBDA e :
       IF e > 0 THEN Positionals(a, e + 1, Append(acc, Slice(a, i + 1, e)))
       ELSE Positionals(a, i + 1, acc))

\* [^\s]+ from i: the position after the run
RECURSIVE NonSpaceEnd(_, _)
NonSpaceEnd(a, i) ==
  IF i <= Len(a) /\ a[i] \notin SpaceChar THEN NonSpaceEnd(a, i + 1) ELSE i

\* ((\\ )|[^\s])+ from i: the position after the run
RECURSIVE FileArgEnd(_, _)
FileArgEnd(a, i) ==
  IF HasTag(a, i, <<"\\", " ">>) THEN FileArgEnd(a, i + 2)
  ELSE IF i <= Len(a) /\ a[i] \notin SpaceChar THEN FileArgEnd(a, i + 1)
  ELSE i

\* " ?" and then a run that must not be empty: the run starts after the blank
\* when one is there and a run starts behind it, and right after the flag
\* otherwise; the bounds of the run, <<0, 0>> when no run starts at either
FlagValue(a, q, RunEnd(_, _)) ==
  IF At(a, q) = " " /\ RunEnd(a, q + 1) > q + 1 THEN <<q + 1, RunEnd(a, q + 1)>>
  ELSE IF RunEnd(a, q) > q THEN <<q, RunEnd(a, q)>>
  ELSE <<0, 0>>

\* re_path = (-C ?([^\s]+)|-f ?(((\\ )|[^\s])+)) : the leftmost match from p,
\* as the bounds of group 2 or group 3, <<0, 0>> when there is none
RECURSIVE PathMatch(_, _)
PathMatch(a, p) ==
  IF p > Len(a) THEN <<0, 0>>
  ELSE IF HasTag(a, p, <<"-", "C">>) /\ FlagValue(a, p + 2, NonSpaceEnd)[1] > 0
  THEN FlagValue(a, p + 2, NonSpaceEnd)
  ELSE IF HasTag(a, p, <<"-", "f">>) /\ FlagValue(a, p + 2, FileArgEnd)[1] > 0
  THEN FlagValue(a, p + 2, FileArgEnd)
  ELSE PathMatch(a, p + 1)

\* Option<(String, Vec<String>)>
None == [some |-> FALSE]
Some(path, tasks) == [some |-> TRUE, path |-> path, tasks |-> tasks]

\* Makefile::parse_make_line
parse_make_line(line) ==
  Let(line, LAMBDA s :
  Let(CmdMatch(s, 1), LAMBDA cmd :
  IF cmd[1] = 0 THEN None
  ELSE Let(Slice(s, cmd[1], cmd[2]), LAMBDA args :
       Let(PathMatch(args, 1), LAMBDA c :
       IF c[1] = 0 THEN None
       ELSE Some(Slice(args, c[1], c[2]), Positionals(args, 1, <<>>))))))

(***************************************************************************)
(* src/makefile.rs: IDGen and the per-file assembler.                      *)
(***************************************************************************)
\* IDGen::new
IDGen_new(prefix) == [prefix |-> prefix, n |-> 0]

\* a generator that does not count: every call gives the same ID
IDGen_repeat(g) == [id |-> <<g.prefix, g.n>>, gen |-> g]

\* IDGen::next: the ID format!("{}{}", prefix, n), and the generator after it
IDGen_next(g) == [id |-> <<g.prefix, g.n>>, gen |-> [g EXCEPT !.n = @ + 1]]

\* struct Task
Task(phony, name, dependencies, commands) ==
  [phony |-> phony, name |-> name, dependencies |-> dependencies,
   commands |-> commands]

\* struct External<T>
External(path, id, tasks) == [path |-> path, id |-> id, tasks |-> tasks]

\* Vec::contains
Contains(v, x) == \E k \in 1..Len(v) : v[k] = x

PhonyName == <<".", "P", "H", "O", "N", "Y">>

\* phonies: the dependencies of every Task term named .PHONY, flattened
RECURSIVE Phonies(_, _)
Phonies(terms, k) ==
  IF k > Len(terms) THEN <<>>
  ELSE IF terms[k].kind = "Task" /\ terms[k].name = PhonyName
  THEN terms[k].dependencies \o Phonies(terms, k + 1)
  ELSE Phonies(terms, k + 1)

\* commands.iter().filter_map(|c| out.parse_make_line(c)).map(External {..})
CommandExternals(commands, id) ==
  {External(r.path, id, r.tasks) :
     r \in {l \in {parse_make_line(commands[k]) : k \in 1..Len(commands)} : l.some}}

\* HashMap::insert
Insert(map, key, value) == (key :> value) @@ map

\* the body of `for term in terms`, on st = [id, external, out]
FromTerm(t, phonies, st) ==
  IF t.kind = "Task"
  THEN Let(IDGen_next(st.id), LAMBDA nx :
       [id       |-> nx.gen,
        external |-> st.external \cup CommandExternals(t.commands, nx.id),
        out      |-> [st.out EXCEPT !.tasks =
                        Insert(@, nx.id,
                               Task(Contains(phonies, t.name), t.name,
                                    t.dependencies, t.commands))]])
  ELSE IF t.kind = "Variable"
  THEN [st EXCEPT !.out.variables = Insert(@, t.name, t.value)]
  ELSE st

RECURSIVE FromTerms(_, _, _, _)
FromTerms(terms, k, phonies, st) ==
  IF k > Len(terms) THEN st
  ELSE Let(FromTerm(terms[k], phonies, st), LAMBDA st2 :
       FromTerms(terms, k + 1, phonies, st2))

(***************************************************************************)
(* The file system the walker reads: a path is the sequence of its         *)
(* components; every directory holds a Makefile that is a regular file, a  *)
(* symbolic link to the Makefile of another directory, or is missing.      *)
(***************************************************************************)
MakefileName == <<"M", "a", "k", "e", "f", "i", "l", "e">>
DirP   == <<<<"p">>>>
DirSub == <<<<"p">>, <<"s", "u", "b">>>>
DirLib == <<<<"p">>, <<"l", "i", "b">>>>
DirRoot == <<>>
Dirs == {DirRoot, DirP, DirSub, DirLib}

NoFile == [kind |-> "none"]
RegularFile(text) == [kind |-> "file", text |-> text]
SymLink(to) == [kind |-> "link", to |-> to]

\* the directory whose Makefile the Makefile of directory d is
LinkTarget(fs, d) == IF fs[d].kind = "link" THEN fs[d].to ELSE d

Err == [ok |-> FALSE]

\* str.split('/') without the empty components, from position i
RECURSIVE Components(_, _, _)
Components(str, i, cur) ==
  IF i > Len(str) THEN (IF cur = <<>> THEN <<>> ELSE <<cur>>)
  ELSE IF str[i] = "/"
  THEN (IF cur = <<>> THEN <<>> ELSE <<cur>>) \o Components(str, i + 1, <<>>)
  ELSE Components(str, i + 1, Append(cur, str[i]))

\* Path::is_dir
is_dir(path) == path \in Dirs

\* whether `path` names the Makefile of a directory that has one
IsFile(fs, path) ==
  /\ Len(path) >= 1
  /\ path[Len(path)] = MakefileName
  /\ SubSeq(path, 1, Len(path) - 1) \in Dirs
  /\ fs[SubSeq(path, 1, Len(path) - 1)].kind # "none"

\* Path::parent
parent(path) ==
  IF Len(path) = 0 THEN Err
  ELSE [ok |-> TRUE, path |-> SubSeq(path, 1, Len(path) - 1)]

\* Path::join: a relative path is appended, an absolute one replaces the base
join(base, str) ==
  IF At(str, 1) = "/" THEN Components(str, 1, <<>>)
  ELSE base \o Components(str, 1, <<>>)

\* Path::canonicalize (realpath), component k of `path` applied to the
\* canonical path `cur`: "." stays, ".." goes up, a name goes down, a
\* Makefile that is a link is replaced by the file it points to
RECURSIVE Realpath(_, _, _, _)
Realpath(fs, path, k, cur) ==
  IF k > Len(path) THEN [ok |-> TRUE, path |-> cur]
  ELSE IF ~is_dir(cur) THEN Err
  ELSE IF path[k] = <<".">> THEN Realpath(fs, path, k + 1, cur)
  ELSE IF path[k] = <<".", ".">>
  THEN Realpath(fs, path, k + 1, IF cur = <<>> THEN cur ELSE SubSeq(cur, 1, Len(cur) - 1))
  ELSE IF is_dir(Append(cur, path[k])) THEN Realpath(fs, path, k + 1, Append(cur, path[k]))
  ELSE IF IsFile(fs, Append(cur, path[k]))
  THEN Realpath(fs, path, k + 1, Append(LinkTarget(fs, cur), MakefileName))
  ELSE Err

canonicalize(fs, path) == Let(path, LAMBDA p : Realpath(fs, p, 1, DirRoot))

\* std::fs::read_to_string
read_to_string(fs, path) ==
  IF IsFile(fs, path)
  THEN [ok |-> TRUE, data |-> fs[LinkTarget(fs, SubSeq(path, 1, Len(path) - 1))].text]
  ELSE Err

\* Makefile::from_terms: the Makefile, and `id` and `external` after the call
from_terms(fs, id, external, path, terms) ==
  Let(<<terms, Phonies(terms, 1)>>, LAMBDA t :
  Let([id |-> id, external |-> external,
       out |-> [file |-> canonicalize(fs, path).path,
                variables |-> <<>>, tasks |-> <<>>]], LAMBDA st :
  FromTerms(t[1], 1, t[2], st)))

\* Makefile::resolve_makefile
resolve_makefile(fs, self, path) ==
  Let(parent(self.file), LAMBDA dir :
  IF ~dir.ok THEN Err
  ELSE Let(canonicalize(fs, join(dir.path, resolve_vars(self, path))), LAMBDA p :
       IF ~p.ok THEN Err
       ELSE IF is_dir(p.path) THEN [ok |-> TRUE, path |-> Append(p.path, MakefileName)]
       ELSE p))

\* Makefile::get_id: the IDs of the tasks of that name (find returns any one)
get_id(self, name) == {id \in DOMAIN self.tasks : self.tasks[id].name = name}

(***************************************************************************)
(* The Makefile texts the model's directories may hold.                    *)
(***************************************************************************)
\* all:\n\tmake -C . all\n
TextSelf ==
  <<"a", "l", "l", ":", "\n", "\t", "m", "a", "k", "e", " ", "-", "C", " ",
    ".", " ", "a", "l", "l", "\n">>

\* all:\n\tmake -C sub all\n
TextSub ==
  <<"a", "l", "l", ":", "\n", "\t", "m", "a", "k", "e", " ", "-", "C", " ",
    "s", "u", "b", " ", "a", "l", "l", "\n">>

\* up:\n\tmake -C .. up\n
TextUp ==
  <<"u", "p", ":", "\n", "\t", "m", "a", "k", "e", " ", "-", "C", " ", ".",
    ".", " ", "u", "p", "\n">>

\* D=lib\nall:\n\tmake -C ${D} all\n\tmake -C sub all\n
TextVar ==
  <<"D", "=", "l", "i", "b", "\n", "a", "l", "l", ":", "\n", "\t", "m", "a",
    "k", "e", " ", "-", "C", " ", "$", "{", "D", "}", " ", "a", "l", "l",
    "\n", "\t", "m", "a", "k", "e", " ", "-", "C", " ", "s", "u", "b", " ",
    "a", "l", "l", "\n">>

\* all:\n\tmake -C nope all\n\tmake -C lib all\n
TextMissing ==
  <<"a", "l", "l", ":", "\n", "\t", "m", "a", "k", "e", " ", "-", "C", " ",
    "n", "o", "p", "e", " ", "a", "l", "l", "\n", "\t", "m", "a", "k", "e",
    " ", "-", "C", " ", "l", "i", "b", " ", "a", "l", "l", "\n">>

\* all:\n cmd\n  (a blank where the recipe's tab was required)
TextBad ==
  <<"a", "l", "l", ":", "\n", " ", "c", "m", "d", "\n">>

\* .PHONY: all\nall: dep\n\tcc -o x\ndep:\n
TextLeaf ==
  <<".", "P", "H", "O", "N", "Y", ":", " ", "a", "l", "l", "\n", "a", "l",
    "l", ":", " ", "d", "e", "p", "\n", "\t", "c", "c", " ", "-", "o", " ",
    "x", "\n", "d", "e", "p", ":", "\n">>

\* all:\n\tmake -f ../lib/Makefile all\n
TextSibling ==
  <<"a", "l", "l", ":", "\n", "\t", "m", "a", "k", "e", " ", "-", "f", " ",
    ".", ".", "/", "l", "i", "b", "/", "M", "a", "k", "e", "f", "i", "l",
    "e", " ", "a", "l", "l", "\n">>

Texts == {TextSelf, TextSub, TextUp, TextVar, TextMissing, TextBad, TextLeaf,
          TextSibling}

\* what the Makefile of a directory may be
Entries ==
  {NoFile} \cup {RegularFile(t) : t \in Texts} \cup {SymLink(d) : d \in Dirs}

\* the file systems: the root directory holds no Makefile, and a link points
\* to a regular file of another directory
FileSystems ==
  {f \in [Dirs -> Entries] :
     /\ f[DirRoot] = NoFile
     /\ \A d \in Dirs : f[d].kind = "link" => f[d].to # d /\ f[f[d].to].kind = "file"}

\* the path walk_from is called with
EntryPath == Append(DirP, MakefileName)

\* the completed Makefiles the memory holds: Vec::push aborts the process
\* when the allocation fails
MaxOut == 7

(***************************************************************************)
(* Makefile::walk_from as a state machine.  pc is "loop" at the head of    *)
(* the while loop, "edges" while the pending edges of the file just parsed *)
(* are resolved, and "done", "error" or "abort" once the call is over.     *)
(***************************************************************************)
VARIABLES
  fs,        \* the file system
  paths,     \* VecDeque<PathBuf>: the pending paths
  out,       \* Vec<Makefile>: the completed Makefiles
  external,  \* HashSet<External<PathBuf>>: the resolved edges
  idgen,     \* the IDGen of the walk
  path,      \* the path popped from `paths`
  m,         \* the Makefile being processed
  exts,      \* HashSet<External<VarStr>>: its edges not yet resolved
  pc,
  fn,        \* the function that is called
  arg,       \* its argument
  ret        \* what it returns

vars == <<fs, paths, out, external, idgen, path, m, exts, pc, fn, arg, ret>>

NoMakefile == [file |-> <<>>, variables |-> <<>>, tasks |-> <<>>]
NoPath == <<>>
NoResult == [kind |-> "none"]

\* the state at the head of the loop, lines 82-86
Init ==
  /\ fs \in FileSystems
  /\ fn = "walk_from"
  /\ arg = EntryPath
  /\ paths = <<EntryPath>>
  /\ out = <<>>
  /\ external = {}
  /\ idgen = IDGen_new("task")
  /\ path = NoPath
  /\ m = NoMakefile
  /\ exts = {}
  /\ pc = "loop"
  /\ ret = NoResult

\* std::fs::read_to_string(&path)? fails
ReadError ==
  /\ pc = "loop" /\ paths # <<>> /\ Len(out) < MaxOut
  /\ ~read_to_string(fs, Head(paths)).ok
  /\ paths' = Tail(paths)
  /\ path' = Head(paths)
  /\ pc' = "error"
  /\ ret' = [kind |-> "Err", error |-> "Io"]
  /\ UNCHANGED <<fs, fn, arg, out, external, idgen, m, exts>>

\* a walker that passes over a file the grammar rejects and goes on
ParseErrorSkipped ==
  /\ pc = "loop" /\ paths # <<>> /\ Len(out) < MaxOut
  /\ read_to_string(fs, Head(paths)).ok
  /\ ~parse(read_to_string(fs, Head(paths)).data).ok
  /\ paths' = Tail(paths)
  /\ path' = Head(paths)
  /\ UNCHANGED <<fs, fn, arg, out, external, idgen, m, exts, pc, ret>>

\* parser::Makefile::parse(&data).map_err(..)? fails
ParseError ==
  /\ pc = "loop" /\ paths # <<>> /\ Len(out) < MaxOut
  /\ read_to_string(fs, Head(paths)).ok
  /\ ~parse(read_to_string(fs, Head(paths)).data).ok
  /\ paths' = Tail(paths)
  /\ path' = Head(paths)
  /\ pc' = "error"
  /\ ret' = [kind |-> "Err", error |-> "Parse"]
  /\ UNCHANGED <<fs, fn, arg, out, external, idgen, m, exts>>

\* lines 88-93: pop the front path, read, parse and assemble the file
ParseFile ==
  /\ pc = "loop" /\ paths # <<>> /\ Len(out) < MaxOut
  /\ read_to_string(fs, Head(paths)).ok
  /\ parse(read_to_string(fs, Head(paths)).data).ok
  /\ \E terms \in {parse(read_to_string(fs, Head(paths)).data).terms} :
       \E r \in {from_terms(fs, idgen, {}, Head(paths), terms)} :
         /\ m' = r.out
         /\ idgen' = r.id
         /\ exts' = r.external
  /\ paths' = Tail(paths)
  /\ path' = Head(paths)
  /\ pc' = "edges"
  /\ UNCHANGED <<fs, fn, arg, out, external, ret>>

\* a walker that puts a discovered path at the front of the queue
ResolveEdgeFront(e) ==
  /\ pc = "edges" /\ e \in exts
  /\ resolve_makefile(fs, m, e.path).ok
  /\ \E p \in {resolve_makefile(fs, m, e.path).path} :
         /\ paths' = IF ~(Contains(paths, p) \/ \E k \in 1..Len(out) : out[k].file = p)
                     THEN <<p>> \o paths
                     ELSE paths
         /\ external' = external \cup {External(p, e.id, e.tasks)}
  /\ exts' = exts \ {e}
  /\ UNCHANGED <<fs, fn, arg, out, idgen, path, m, pc, ret>>

\* lines 94-109, one edge of the filter_map whose path resolves: the path is
\* queued unless pending or completed, and the resolved edge is kept
ResolveEdge(e) ==
  /\ pc = "edges" /\ e \in exts
  /\ resolve_makefile(fs, m, e.path).ok
  /\ \E p \in {resolve_makefile(fs, m, e.path).path} :
         /\ paths' = IF ~(Contains(paths, p) \/ \E k \in 1..Len(out) : out[k].file = p)
                     THEN Append(paths, p)
                     ELSE paths
         /\ external' = external \cup {External(p, e.id, e.tasks)}
  /\ exts' = exts \ {e}
  /\ UNCHANGED <<fs, fn, arg, out, idgen, path, m, pc, ret>>

\* a walker that gives up at an edge whose path does not resolve
DropEdgeFatal(e) ==
  /\ pc = "edges" /\ e \in exts
  /\ ~resolve_makefile(fs, m, e.path).ok
  /\ exts' = exts \ {e}
  /\ pc' = "error"
  /\ ret' = [kind |-> "Err", error |-> "Path"]
  /\ UNCHANGED <<fs, fn, arg, paths, out, external, idgen, path, m>>

\* lines 96-101, one edge whose path does not resolve: return None
DropEdge(e) ==
  /\ pc = "edges" /\ e \in exts
  /\ ~resolve_makefile(fs, m, e.path).ok
  /\ exts' = exts \ {e}
  /\ UNCHANGED <<fs, fn, arg, paths, out, external, idgen, path, m, pc, ret>>

\* line 110: out.push(m)
Complete ==
  /\ pc = "edges" /\ exts = {}
  /\ out' = Append(out, m)
  /\ pc' = "loop"
  /\ UNCHANGED <<fs, fn, arg, paths, external, idgen, path, m, exts, ret>>

\* line 113: the queue is empty, Ok((out, external))
Return ==
  /\ pc = "loop" /\ paths = <<>>
  /\ pc' = "done"
  /\ ret' = [kind |-> "Ok", out |-> out, external |-> external]
  /\ UNCHANGED <<fs, fn, arg, paths, out, external, idgen, path, m, exts>>

\* the memory is full and the walk is not over: the allocation of the next
\* file's data fails and the process aborts
OutOfMemory ==
  /\ pc = "loop" /\ paths # <<>> /\ Len(out) >= MaxOut
  /\ pc' = "abort"
  /\ UNCHANGED <<fs, fn, arg, paths, out, external, idgen, path, m, exts, ret>>

Next ==
  \/ ReadError
  \/ ParseError
  \/ ParseFile
  \/ \E e \in exts : ResolveEdge(e)
  \/ \E e \in exts : DropEdge(e)
  \/ Complete
  \/ Return
  \/ OutOfMemory

Spec == Init /\ [][Next]_vars

(***************************************************************************)
(* The functions of the program applied one at a time: Init draws the      *)
(* function and its argument, and the action of the function applies it.   *)
(***************************************************************************)
\* the longest argument of each function
MaxPieces == 3
MaxWords == 4
MaxTerms == 3

\* the sequences over S of 1 to n members
RECURSIVE SeqsUpTo(_, _)
SeqsUpTo(S, n) ==
  IF n = 0 THEN {}
  ELSE {<<x>> : x \in S} \cup SeqsUpTo(S, n - 1)
       \cup {Append(q, x) : q \in SeqsUpTo(S, n - 1), x \in S}

\* the members of a sequence of texts one after the other, `sep` in between
RECURSIVE Joined(_, _, _)
Joined(ws, k, sep) ==
  IF k > Len(ws) THEN <<>>
  ELSE IF k = Len(ws) THEN ws[k]
  ELSE ws[k] \o sep \o Joined(ws, k + 1, sep)

\* resolve_vars: the variables DIR=lib of a Makefile, and a string made of
\* these pieces
VarDIR == <<"D", "I", "R">>
ValueLib == <<"l", "i", "b">>
RefDIR == <<"$", "{", "D", "I", "R", "}">>
RefX == <<"$", "{", "X", "}">>
Pieces == {RefDIR, RefX, <<"$">>, <<"{">>, <<"}">>, <<"/">>, <<"s", "u", "b">>}
VarsMakefile ==
  [file |-> EntryPath, variables |-> (VarDIR :> ValueLib), tasks |-> <<>>]
VarsInputs ==
  {[self |-> VarsMakefile, str |-> Joined(ps, 1, <<>>)] : ps \in SeqsUpTo(Pieces, MaxPieces)}

\* parse_make_line: the line "make" and some of these words, a blank between
WordMake == <<"m", "a", "k", "e">>
FlagC == <<"-", "C">>
FlagF == <<"-", "f">>
Words == {FlagC, FlagF, RefDIR, <<"s", "u", "b">>, <<"b", "u", "i", "l", "d">>, <<"t", "e", "s", "t">>, <<"V", "=", "1">>, <<"-", "j">>}
LineOf(words) == Joined(<<WordMake>> \o words, 1, <<" ">>)
LineInputs == SeqsUpTo(Words, MaxWords)

\* from_terms: some of these terms
NameX == <<"x">>
NameA == <<"a">>
NameB == <<"b">>
CmdCC == <<"c", "c", " ", "-", "c", " ", "x">>
CmdMake == <<"m", "a", "k", "e", " ", "-", "C", " ", "s", "u", "b", " ", "a", "l", "l">>
TermPool ==
  {TermTask(PhonyName, <<NameA, NameB>>, <<>>),
   TermTask(NameX, <<NameA>>, <<>>),
   TermTask(NameX, <<NameB>>, <<CmdCC>>),
   TermTask(NameA, <<>>, <<CmdMake>>),
   TermTask(NameB, <<>>, <<>>),
   TermVariable(VarDIR, <<"=">>, ValueLib),
   TermEmpty}
TermsInputs == SeqsUpTo(TermPool, MaxTerms)

\* parse: the text `name: dep1 dep2\n\tcmd1\n\tcmd2\n` with these identifiers
\* and these recipe lines
Identifiers == {<<"a", "l", "l">>, <<"m", "a", "i", "n", ".", "o">>, <<"x", "-", "y">>, <<"_", "t">>, <<"i", "n", "c", "l", "u", "d", "e">>, <<"i", "n", "c", "l", "u", "d", "e", "s">>, <<"i", "f", "d", "e", "f">>}
Recipes == {CmdCC, CmdMake}
TaskText(t) ==
  t.name \o <<":", " ">> \o t.dep1 \o <<" ">> \o t.dep2 \o <<"\n", "\t">>
    \o t.cmd1 \o <<"\n", "\t">> \o t.cmd2 \o <<"\n">>
TaskInputs ==
  [name : Identifiers, dep1 : Identifiers, dep2 : Identifiers,
   cmd1 : Recipes, cmd2 : Recipes]

\* the file system from_terms canonicalizes its path in
PureFs == [d \in Dirs |-> IF d = DirRoot THEN NoFile ELSE RegularFile(TextLeaf)]

PureCalls ==
  {<<"resolve_vars", a>> : a \in VarsInputs}
    \cup {<<"parse_make_line", a>> : a \in LineInputs}
    \cup {<<"from_terms", a>> : a \in TermsInputs}
    \cup {<<"parse", a>> : a \in TaskInputs}

PureInit ==
  /\ \E c \in PureCalls : fn = c[1] /\ arg = c[2]
  /\ ret = NoResult
  /\ pc = "call"
  /\ fs = PureFs
  /\ paths = <<>>
  /\ out = <<>>
  /\ external = {}
  /\ idgen = IDGen_new("task")
  /\ path = NoPath
  /\ m = NoMakefile
  /\ exts = {}

Returns(f, value) ==
  /\ pc = "call" /\ fn = f
  /\ ret' = value
  /\ pc' = "done"
  /\ UNCHANGED <<fs, paths, out, external, idgen, path, m, exts, fn, arg>>

CallResolveVars == Returns("resolve_vars", resolve_vars(arg.self, arg.str))

CallParseMakeLine == Returns("parse_make_line", parse_make_line(LineOf(arg)))

CallFromTerms == Returns("from_terms", from_terms(fs, idgen, {}, EntryPath, arg))

CallParse == Returns("parse", parse(TaskText(arg)))

PureNext ==
  \/ CallResolveVars
  \/ CallParseMakeLine
  \/ CallFromTerms
  \/ CallParse

PureSpec == PureInit /\ [][PureNext]_vars

(***************************************************************************)
(* The parser `var` applied to one variable line: the name, blanks, the    *)
(* operator, blanks, the value, a comment, the line end and what follows.  *)
(***************************************************************************)
\* the longest value, in pieces
MaxAtoms == 3

VarNames == {<<"f", "o", "o">>, <<"$", "(", "X", ")">>}
VarOperators == {<<"=">>, <<"?", "=">>}
VarBlanks == {<<>>, <<" ">>, <<"\t", "\\", "\n", " ">>}
VarWord == <<"1">>
VarAssign == <<"v", "=", "2">>
VarAtoms == {VarWord, VarAssign, <<" ">>, <<"\t">>, <<"\\", "\n">>}
VarValues ==
  {<<>>} \cup {v \in SeqsUpTo(VarAtoms, MaxAtoms) : v[1] \in {VarWord, VarAssign}}
VarComments == {<<>>, <<"#", "c">>, <<"#", " ", "c", "\\", "\n", "d">>}
VarEnds ==
  {[nl |-> <<>>, tail |-> <<>>],
   [nl |-> <<"\n">>, tail |-> <<>>],
   [nl |-> <<"\n">>, tail |-> VarAssign],
   [nl |-> <<"\r", "\n">>, tail |-> VarAssign],
   [nl |-> <<"\n">>, tail |-> <<"#", " ", "c">>]}
VarLines ==
  [name : VarNames, pre : VarBlanks, op : VarOperators, post : VarBlanks,
   value : VarValues, comment : VarComments, end : VarEnds]

\* the text of the line
VarText(a) ==
  a.name \o a.pre \o a.op \o a.post \o Joined(a.value, 1, <<>>) \o a.comment
    \o a.end.nl \o a.end.tail

\* Finish::finish: the remaining input and the output, or the error
Finish(s, r) ==
  IF r.ok THEN [ok |-> TRUE, input |-> Slice(s, r.pos, Len(s) + 1), val |-> r.val]
  ELSE [ok |-> FALSE]

VarInit ==
  /\ fn = "var" /\ arg \in VarLines
  /\ ret = NoResult
  /\ pc = "call"
  /\ fs = PureFs
  /\ paths = <<>>
  /\ out = <<>>
  /\ external = {}
  /\ idgen = IDGen_new("task")
  /\ path = NoPath
  /\ m = NoMakefile
  /\ exts = {}

CallVar == \E s \in {VarText(arg)} : Returns("var", Finish(s, var(s, 1)))

VarNext == CallVar

VarSpec == VarInit /\ [][VarNext]_vars

(***************************************************************************)
(* The walker's properties.                                                *)
(***************************************************************************)
Walking == fn = "walk_from"

\* the edges the recipes of a completed Makefile hold
EdgesOf(mk) ==
  UNION {CommandExternals(mk.tasks[id].commands, id) : id \in DOMAIN mk.tasks}

\* the edge e of the Makefile mk was followed: it is in the returned set with
\* its resolved path, and the file of that path is completed
Followed(mk, e) ==
  \E r \in {resolve_makefile(fs, mk, e.path)} :
    r.ok => /\ External(r.path, e.id, e.tasks) \in external
            /\ \E j \in 1..Len(out) : out[j].file = canonicalize(fs, r.path).path

\* every Makefile a path can name is readable and parseable, and so is the
\* target of every invocation that resolves
AllReadable ==
  \A d \in Dirs \ {DirRoot} :
    \E f \in {read_to_string(fs, Append(d, MakefileName))} :
      /\ f.ok
      /\ \E t \in {parse(f.data)} :
           /\ t.ok
           /\ \E r \in {from_terms(fs, IDGen_new("task"), {}, Append(d, MakefileName), t.terms)} :
                \A e \in r.external :
                  \E q \in {resolve_makefile(fs, r.out, e.path)} :
                    q.ok => read_to_string(fs, q.path).ok

\* C1: at every point of the walk no two completed Makefiles have the same
\* file, no path is in the queue twice, and no path in the queue is the file
\* of a completed Makefile (each canonical path is read and parsed once).
C1_VisitedOnce ==
  Walking =>
    /\ \A i, j \in 1..Len(out) : i # j => out[i].file # out[j].file
    /\ \A i, j \in 1..Len(paths) : i # j => paths[i] # paths[j]
    /\ \A i \in 1..Len(paths) : \A j \in 1..Len(out) : paths[i] # out[j].file

\* C2: the walk of readable, parseable Makefiles ends in no other way than by
\* returning with the queue empty, and when it returns every file that a
\* resolving invocation of a completed file names is completed.
C2_WalkReturns ==
  Walking =>
    /\ pc = "abort" => ~AllReadable
    /\ pc = "error" => ~AllReadable
    /\ pc = "done" =>
         /\ paths = <<>>
         /\ \A k \in 1..Len(out) : \A e \in EdgesOf(out[k]) : Followed(out[k], e)

\* the IDs of the tasks held by the completed Makefiles and by the one being
\* processed are as many as the IDs handed out, and each was handed out
IDsDistinct ==
  LET held == [k \in 1..Len(out) |-> DOMAIN out[k].tasks]
      cur  == IF pc = "edges" THEN DOMAIN m.tasks ELSE {}
  IN  /\ \A i, j \in 1..Len(out) : i # j => held[i] \cap held[j] = {}
      /\ \A i \in 1..Len(out) : held[i] \cap cur = {}
      /\ \A id \in cur \cup UNION {held[k] : k \in 1..Len(out)} :
           id[1] = idgen.prefix /\ id[2] < idgen.n
      /\ Cardinality(cur \cup UNION {held[k] : k \in 1..Len(out)}) = idgen.n

\* a completed Makefile keeps its tasks under their IDs
IDsStable ==
  \A k \in 1..Len(out) : Len(out') >= k /\ out'[k].tasks = out[k].tasks

\* C3: with the one IDGen of the walk, no two tasks of the completed
\* Makefiles have the same ID, no ID is handed out again, and no task is
\* re-keyed.
C3_UniqueIDs == [](Walking => IDsDistinct) /\ [][Walking => IDsStable]_vars

\* C3's case: the walk is over with tasks in two or more Makefiles
C3_Witness ==
  /\ Walking /\ pc = "done"
  /\ \E i, j \in 1..Len(out) :
       i # j /\ out[i].tasks # <<>> /\ out[j].tasks # <<>> /\ out[i].file # out[j].file

\* the step that passes over the edge e of the file being processed
Dropped(e) ==
  /\ pc = "edges" /\ e \in exts /\ exts' = exts \ {e}
  /\ ~resolve_makefile(fs, m, e.path).ok

\* C8: an edge whose path does not resolve is dropped alone: the queue, the
\* completed list and the recorded edges stay as they were and the walk goes
\* on; the other edges of the file are followed, and the walk returns Ok
\* with them.
C8_DropsOneEdge ==
  /\ [][\A e \in exts : Dropped(e) =>
          /\ paths' = paths /\ out' = out /\ external' = external
          /\ pc' = "edges" /\ ret' = ret]_vars
  /\ [](Walking /\ pc = "done" =>
          /\ ret = [kind |-> "Ok", out |-> out, external |-> external]
          /\ \A k \in 1..Len(out) : \A e \in EdgesOf(out[k]) : Followed(out[k], e))

\* C8's case: the walk returned, and a completed file holds an edge that does
\* not resolve and one that does
C8_Witness ==
  /\ Walking /\ pc = "done"
  /\ \E k \in 1..Len(out) : \E e1, e2 \in EdgesOf(out[k]) :
       /\ ~resolve_makefile(fs, out[k], e1.path).ok
       /\ resolve_makefile(fs, out[k], e2.path).ok
       /\ \E j \in 1..Len(out) :
            j # k /\ out[j].file = resolve_makefile(fs, out[k], e2.path).path

\* the file at the head of the queue cannot be read or does not parse
HeadFails ==
  /\ pc = "loop" /\ paths # <<>> /\ Len(out) < MaxOut
  /\ \E f \in {read_to_string(fs, Head(paths))} : ~f.ok \/ ~parse(f.data).ok

\* C9: a file that cannot be read or parsed ends the walk with an error: no
\* Makefile list and no edges are returned, and no queued file is parsed
\* afterwards.
C9_FatalFile ==
  /\ [][Walking /\ HeadFails => pc' = "error" /\ ret'.kind = "Err"]_vars
  /\ [][pc = "error" => pc' = "error" /\ UNCHANGED <<paths, out, m, ret>>]_vars
  /\ [](Walking /\ pc = "error" => DOMAIN ret = {"kind", "error"})

\* C9's case: a discovered file with a blank where a tab was required stopped
\* the walk while another file was still queued
C9_Witness ==
  /\ Walking /\ pc = "error" /\ ret.error = "Parse"
  /\ read_to_string(fs, path).data = TextBad
  /\ out # <<>> /\ paths # <<>>

(***************************************************************************)
(* The properties of the functions.                                        *)
(***************************************************************************)
Returned(f) == fn = f /\ pc = "done"

\* the members of a sequence
Range(v) == {v[k] : k \in 1..Len(v)}

\* the rules of the terms for the target n
Rules(terms, n) == SelectSeq(terms, LAMBDA t : t.kind = "Task" /\ t.name = n)

\* the dependency lists of the rules, one after the other
RECURSIVE AllDependencies(_, _)
AllDependencies(rules, k) ==
  IF k > Len(rules) THEN <<>>
  ELSE rules[k].dependencies \o AllDependencies(rules, k + 1)

\* the command list of the last rule that has commands
LastCommands(rules) ==
  LET with == SelectSeq(rules, LAMBDA t : t.commands # <<>>)
  IN  IF with = <<>> THEN <<>> ELSE with[Len(with)].commands

\* C4: several rules for one target give one task of that name, with the
\* dependencies of the rules in declaration order and the commands of the
\* most recent rule that has commands.
C4_MultiRuleMerge ==
  Returned("from_terms") =>
    \A n \in {t.name : t \in {u \in Range(arg) : u.kind = "Task"}} \ {PhonyName} :
      Len(Rules(arg, n)) >= 2 =>
        /\ Cardinality(get_id(ret.out, n)) = 1
        /\ \A id \in get_id(ret.out, n) :
             /\ ret.out.tasks[id].dependencies = AllDependencies(Rules(arg, n), 1)
             /\ ret.out.tasks[id].commands = LastCommands(Rules(arg, n))

\* the names the .PHONY rules of the terms list
PhonyNames(terms) ==
  UNION {Range(t.dependencies) : t \in Range(Rules(terms, PhonyName))}

\* C5: the task map holds no task named .PHONY, and a task is phony exactly
\* when a .PHONY rule of the file lists its name.
C5_Phony ==
  Returned("from_terms") =>
    /\ get_id(ret.out, PhonyName) = {}
    /\ \A id \in DOMAIN ret.out.tasks :
         ret.out.tasks[id].phony = (ret.out.tasks[id].name \in PhonyNames(arg))

\* the resolver as documented: a reference to a variable that is not defined
\* stays as it is written
RECURSIVE Documented(_, _, _, _)
Documented(variables, str, p, acc) ==
  IF p > Len(str) THEN acc
  ELSE Let(VarMatch(str, p), LAMBDA q :
       IF q > 0
       THEN Documented(variables, str, q + 1,
                       acc \o (IF Slice(str, p + 2, q) \in DOMAIN variables
                               THEN variables[Slice(str, p + 2, q)]
                               ELSE Slice(str, p, q + 1)))
       ELSE Documented(variables, str, p + 1, Append(acc, str[p])))

\* C6: every ${NAME} with NAME defined is replaced by the value, every
\* ${NAME} with NAME not defined stays as its own text, and nothing else
\* changes.
C6_ResolveVars ==
  Returned("resolve_vars") =>
    ret = Documented(arg.self.variables, arg.str, 1, <<>>)

\* a word that asks for a task: no flag, no VAR=value, no ":" and no "/"
IsPositional(w) ==
  w[1] # "-" /\ ~Contains(w, "=") /\ ~Contains(w, ":") /\ ~Contains(w, "/")

\* the positions of the -C and -f flags of the words
PathFlags(words) == {k \in 1..Len(words) : words[k] \in {FlagC, FlagF}}

\* the positional words but the one at position v, in their order
RECURSIVE PositionalWords(_, _, _)
PositionalWords(words, k, v) ==
  IF k > Len(words) THEN <<>>
  ELSE (IF k # v /\ IsPositional(words[k]) THEN <<words[k]>> ELSE <<>>)
         \o PositionalWords(words, k + 1, v)

\* C7: of a make line with one -C <dir> or -f <file> flag, the path is the
\* value of the flag and the task names are all the positional words, from
\* left to right.
C7_ParseMakeLine ==
  Returned("parse_make_line") =>
    \A k \in PathFlags(arg) :
      (PathFlags(arg) = {k} /\ k < Len(arg) /\ arg[k + 1][1] # "-") =>
        ret = Some(arg[k + 1], PositionalWords(arg, 1, k + 1))

\* C10: the text `name: dep1 dep2`, a tab and cmd1, a tab and cmd2 parses to
\* one term, the Task of that name with these dependencies and commands.
C10_TaskRoundTrip ==
  Returned("parse") =>
    ret = [ok |-> TRUE,
           terms |-> <<TermTask(arg.name, <<arg.dep1, arg.dep2>>,
                                <<arg.cmd1, arg.cmd2>>)>>]

\* C11: `var` on a variable line returns the name, the operator `=` or `?=`
\* and the value: the text after the operator and its blanks up to the first
\* `#` or the first line end that no backslash escapes, continuations and
\* trailing blanks included; the remaining input is what follows the line.
\* (Before a line end \r\n the value may be read with or without the \r.)
C11_Var ==
  Returned("var") =>
    /\ ret.ok
    /\ ret.input = arg.end.tail
    /\ ret.val[1] = arg.name /\ ret.val[2] = arg.op
    /\ \/ ret.val[3] = Joined(arg.value, 1, <<>>)
       \/ /\ arg.comment = <<>> /\ arg.end.nl = <<"\r", "\n">>
          /\ ret.val[3] = Joined(arg.value, 1, <<>>) \o <<"\r">>

\* the step that takes a file from the queue to read and parse it
Dequeues == pc = "loop" /\ pc' \in {"edges", "error"}

\* C12: the queue is a FIFO work list: the file read and parsed next is the
\* one at the head; a file discovered while F is processed goes to the tail,
\* behind all that were enqueued before it; and no file is taken from the
\* queue before F is recorded as completed.
C12_FIFO ==
  /\ [][Walking /\ Dequeues =>
          /\ paths # <<>> /\ path' = Head(paths) /\ paths' = Tail(paths)
          /\ m # NoMakefile => out # <<>> /\ out[Len(out)] = m]_vars
  /\ [][Walking /\ ~Dequeues =>
          /\ path' = path /\ m' = m
          /\ \/ paths' = paths
             \/ /\ pc = "edges" /\ pc' = "edges" /\ out' = out
                /\ Len(paths') = Len(paths) + 1
                /\ SubSeq(paths', 1, Len(paths)) = paths]_vars
  /\ [][Walking /\ pc = "edges" /\ pc' # "edges" =>
          pc' = "loop" /\ out' = Append(out, m) /\ paths' = paths]_vars

\* C12's case: while a file is processed the queue holds a file enqueued
\* earlier and, behind it, one discovered now
C12_Witness ==
  /\ Walking /\ pc = "edges" /\ out # <<>>
  /\ Len(paths) >= 2
  /\ \E e \in EdgesOf(m) :
       /\ e \notin exts
       /\ resolve_makefile(fs, m, e.path).ok
       /\ paths[Len(paths)] = resolve_makefile(fs, m, e.path).path
  /\ \E k \in 1..Len(out) : \E e \in EdgesOf(out[k]) :
       /\ resolve_makefile(fs, out[k], e.path).ok
       /\ paths[1] = resolve_makefile(fs, out[k], e.path).path
  /\ paths[1] # paths[Len(paths)]

\* the completed Makefiles whose task map has the key id
Holders(id) == {k \in 1..Len(ret.out) : id \in DOMAIN ret.out[k].tasks}

\* C13: when the walk returns Ok, the id of every returned edge is a key of
\* the task map of exactly one completed Makefile, a recipe of that task
\* holds the invocation, and the path of the edge is the file of a completed
\* Makefile.
C13_EdgesComplete ==
  (Walking /\ pc = "done" /\ ret.kind = "Ok") =>
    \A e \in ret.external :
      /\ Cardinality(Holders(e.id)) = 1
      /\ \A k \in Holders(e.id) :
           \E c \in Range(ret.out[k].tasks[e.id].commands) :
             /\ parse_make_line(c).some
             /\ parse_make_line(c).tasks = e.tasks
      /\ \E j \in 1..Len(ret.out) : ret.out[j].file = e.path

\* one run of the walk on the files f, written as a function: the edges of a
\* file are taken in the one order CHOOSE fixes
RECURSIVE RunEdges(_, _, _, _, _, _)
RunEdges(f, mk, ex, ps, done, ext) ==
  IF ex = {} THEN [paths |-> ps, external |-> ext]
  ELSE Let(CHOOSE x \in ex : TRUE, LAMBDA e :
       Let(resolve_makefile(f, mk, e.path), LAMBDA r :
       IF ~r.ok THEN RunEdges(f, mk, ex \ {e}, ps, done, ext)
       ELSE RunEdges(f, mk, ex \ {e},
                     IF Contains(ps, r.path)
                          \/ \E k \in 1..Len(done) : done[k].file = r.path
                     THEN ps ELSE Append(ps, r.path),
                     done, ext \cup {External(r.path, e.id, e.tasks)})))

RECURSIVE Run(_, _, _, _, _)
Run(f, ps, done, ext, gen) ==
  IF ps = <<>> THEN [kind |-> "Ok", out |-> done, external |-> ext]
  ELSE IF Len(done) >= MaxOut THEN [kind |-> "none"]
  ELSE Let(read_to_string(f, Head(ps)), LAMBDA d :
       IF ~d.ok THEN [kind |-> "Err", error |-> "Io"]
       ELSE Let(parse(d.data), LAMBDA t :
       IF ~t.ok THEN [kind |-> "Err", error |-> "Parse"]
       ELSE Let(from_terms(f, gen, {}, Head(ps), t.terms), LAMBDA r :
            Let(RunEdges(f, r.out, r.external, Tail(ps), done, ext), LAMBDA q :
            Run(f, q.paths, Append(done, r.out), q.external, r.id)))))

\* C14: the result of the walk is a function of the files: whatever order
\* the edges of a file are iterated in, the walk returns what the run above
\* returns on the same files, the Makefiles in the same order and every task
\* under the same ID.
C14_Deterministic ==
  (Walking /\ pc = "done") =>
    ret = Run(fs, <<EntryPath>>, <<>>, {}, IDGen_new("task"))
====
